---- MODULE Spec2Model ----
(***************************************************************************)
(* Credit-card issuance backend: the card-application workflow             *)
(* (routes/manager.py, routes/cards.py), card balances                     *)
(* (models/credit_card.py) and transaction posting                         *)
(* (routes/transactions.py, models/transaction.py).                        *)
(*                                                                         *)
(* The three MongoDB collections are the shared state.  Every request      *)
(* handler runs in one of the server's workers; a handler is a sequence of *)
(* store operations (find_one, insert_one, update_one), each atomic, and   *)
(* the handlers of different workers interleave between them.  A handler   *)
(* keeps the object it read (obj) and works on that copy.                  *)
(***************************************************************************)
EXTENDS Integers, Sequences, FiniteSets, TLC

\* ---------------------------------------------------------------- bounds
MaxApplications == 1
MaxPosts == 2
MaxLedgerOps == 3

\* ------------------------------------------------------ program constants
MinCreditLimit == 10000
MaxCreditLimit == 1000000
MinTransactionAmount == 1
MaxTransactionAmount == 100000
MinReasonLength == 10

STATUS_PENDING == "pending"
STATUS_APPROVED == "approved"
STATUS_REJECTED == "rejected"
TXN_STATUS_PENDING == "pending"

\* python's None and a present value
None == << >>
Some(v) == << v >>
IsSet(x) == x # None
Val(x) == x[1]

\* ------------------------------------------------------------ principals
Workers == {1, 2}
Customers == {1, 2}
Managers == {"m1"}
Banks == {"HDFC Bank"}

\* request inputs
LimitInputs == {5000, 100000, 1000001}
AmountInputs == {5000, 100000, 200000}
TxnTypes == {"purchase"}
RefNumbers == {"TXNAAAAAAAAAA"}

\* rejection reasons as character sequences
ReasonShort == << "n", "o" >>
ReasonPadded == << " ", " ", "t", "o", "o", " ", "r", "i", "s", "k", "y", " ", " " >>
ReasonValid == << "l", "o", "w", " ", "i", "n", "c", "o", "m", "e" >>
DefaultReason == << "A", "p", "p", "l", "i", "c", "a", "t", "i", "o", "n", " ",
                    "d", "o", "e", "s", " ", "n", "o", "t", " ", "m", "e", "e", "t", " ",
                    "o", "u", "r", " ", "c", "r", "i", "t", "e", "r", "i", "a" >>
\* the approve request's limit: omitted, or one of the limits
ApproveLimitInputs == {None} \cup {Some(x) : x \in LimitInputs}
ReasonInputs == {None, Some(<< >>), Some(ReasonShort), Some(ReasonPadded), Some(ReasonValid)}

VARIABLES customers, card_applications, credit_cards, transactions, issued_from, reqs,
          response, posts

vars == << customers, card_applications, credit_cards, transactions, issued_from, reqs,
          response, posts >>

\* ---------------------------------------------------------------- helpers
RECURSIVE LStrip(_)
LStrip(s) == IF s # << >> /\ Head(s) = " " THEN LStrip(Tail(s)) ELSE s

RECURSIVE RStrip(_)
RStrip(s) == IF s # << >> /\ s[Len(s)] = " " THEN RStrip(SubSeq(s, 1, Len(s) - 1)) ELSE s

Strip(s) == RStrip(LStrip(s))

Max(a, b) == IF a >= b THEN a ELSE b

validate_numeric_range(value, min_val, max_val) == value >= min_val /\ value <= max_val

validate_credit_limit(limit) == validate_numeric_range(limit, MinCreditLimit, MaxCreditLimit)

validate_transaction_amount(amount) ==
    validate_numeric_range(amount, MinTransactionAmount, MaxTransactionAmount)

\* Customer.find_by_id: customer documents are never removed from the store
CustomerFound(c) == c \in Customers

\* CreditCard.find_by_customer_id: the customer's active cards
find_by_customer_id(c) ==
    {k \in 1..Len(credit_cards) :
        credit_cards[k].customer_id = c /\ credit_cards[k].is_active}

\* update_one: the numbers of documents update_one can report as
\* modified.  A $set of values the document already holds modifies it only
\* through updated_at, which the store keeps to the millisecond: the write
\* is reported as 0 documents when that coincides too
modified_count(doc, written) == IF written = doc THEN {0, 1} ELSE {1}

\* ----------------------------------------------------------- request slots
\* A worker's handler: the request (op and inputs), the next store operation
\* (pc) and the object the handler read (obj).  issued_from records, for each
\* card, the application it was issued from; posts counts the postings
\* taken up; response is the last response sent.
IdleReq ==
    [op |-> "none", pc |-> "done", customer |-> 0, manager |-> "", target |-> 0,
     num |-> 0, reason |-> None, bank |-> "", kind |-> "", card |-> 0, pin |-> None, obj |-> None,
     data |-> None]

\* the response a handler returns (APIResponse: status code and data)
Response(op, target, code, data) ==
    [op |-> op, target |-> target, code |-> code, data |-> data]

NoResponse == Response("none", 0, 0, None)

Free(w) == reqs[w].pc = "done"

\* workers are interchangeable: a request is taken by the first free worker
Takes(w) == Free(w) /\ \A v \in Workers : v < w => ~Free(v)

InFlight(op) == Cardinality({w \in Workers : reqs[w].op = op /\ reqs[w].pc # "done"})

\* a handler returns: its worker is free again and the response is sent
Answer(w, r) ==
    /\ reqs' = [reqs EXCEPT ![w] = IdleReq]
    /\ response' = r

\* a handler goes on to its next store operation
Continue(w, req) ==
    /\ reqs' = [reqs EXCEPT ![w] = req]
    /\ UNCHANGED response

\* -------------------------------------------------------------------- Init
Init ==
    /\ card_applications = << >>
    /\ credit_cards = << >>
    /\ transactions = << >>
    /\ issued_from = << >>
    /\ reqs = [w \in Workers |-> IdleReq]
    /\ response = NoResponse
    /\ posts = 0
    /\ customers = << >>

\* ---------------------------------------------------------- apply_for_card
\* mutant: the same-bank check left out
ApplyCheck_NoBankCheck(c, bank, limit) ==
    IF ~validate_credit_limit(limit) THEN 400
    ELSE 0

\* mutant: the limit not validated
ApplyCheck_NoLimitCheck(c, bank, limit) ==
    IF \E k \in find_by_customer_id(c) : credit_cards[k].bank_name = bank THEN 409
    ELSE 0

\* validation, then the same-bank check against the customer's active cards;
\* 0 when the request passes
ApplyCheck(c, bank, limit) ==
    IF ~validate_credit_limit(limit) THEN 400
    ELSE IF \E k \in find_by_customer_id(c) : credit_cards[k].bank_name = bank THEN 409
    ELSE 0

\* customers are interchangeable: they are numbered in the order in which
\* they first apply
ApplyStart(w, c, bank, limit) ==
    /\ Takes(w)
    /\ Len(card_applications) + InFlight("apply") < MaxApplications
    /\ c <= Len(card_applications) + InFlight("apply") + 1
    /\ IF ApplyCheck(c, bank, limit) # 0
       THEN Answer(w, Response("apply", 0, ApplyCheck(c, bank, limit), None))
       ELSE Continue(w, [IdleReq EXCEPT !.op = "apply", !.pc = "apply_insert",
                                        !.customer = c, !.bank = bank, !.num = limit])
    /\ UNCHANGED << card_applications, credit_cards, transactions, issued_from, posts >>
    /\ UNCHANGED customers

\* CardApplication.create
CardApplication_create(c, bank, limit) ==
    [customer_id |-> c, bank_name |-> bank, requested_credit_limit |-> limit,
     status |-> STATUS_PENDING, approved_credit_limit |-> None, approved_by |-> None,
     rejection_reason |-> None, processed_at |-> None]

ApplyInsert(w) ==
    /\ reqs[w].pc = "apply_insert"
    /\ card_applications' = Append(card_applications,
          CardApplication_create(reqs[w].customer, reqs[w].bank, reqs[w].num))
    /\ Answer(w, Response("apply", Len(card_applications) + 1, 200, None))
    /\ UNCHANGED << credit_cards, transactions, issued_from, posts >>
    /\ UNCHANGED customers

\* ----------------------------------------------------- approve_application
\* the stored applications' ids and one id that is not in the store
AppIds == 1..(Len(card_applications) + 1)

\* data.get('approved_credit_limit', application.requested_credit_limit)
ApprovedLimit(id, limit) ==
    IF IsSet(limit) THEN Val(limit) ELSE card_applications[id].requested_credit_limit

\* mutant: the status check left out
ApproveCheck_NoStatusCheck(id, limit) ==
    IF id > Len(card_applications) THEN 404
    ELSE IF ~validate_credit_limit(ApprovedLimit(id, limit)) THEN 400
    ELSE 0

\* find_by_id, the status check, the limit validated; 0 when the request passes
ApproveCheck(id, limit) ==
    IF id > Len(card_applications) THEN 404
    ELSE IF card_applications[id].status # STATUS_PENDING THEN 409
    ELSE IF ~validate_credit_limit(ApprovedLimit(id, limit)) THEN 400
    ELSE 0

ApproveStart(w, m, id, limit) ==
    /\ Takes(w)
    /\ IF ApproveCheck(id, limit) # 0
       THEN Answer(w, Response("approve", id, ApproveCheck(id, limit), None))
       ELSE Continue(w, [IdleReq EXCEPT !.op = "approve", !.pc = "approve_update",
                                        !.manager = m, !.target = id,
                                        !.num = ApprovedLimit(id, limit),
                                        !.obj = Some(card_applications[id])])
    /\ UNCHANGED << card_applications, credit_cards, transactions, issued_from, posts >>
    /\ UNCHANGED customers

\* CardApplication.approve: the fields it $sets on the stored document
CardApplication_approve(doc, self, manager_id, approved_credit_limit) ==
    [doc EXCEPT !.status = STATUS_APPROVED,
                !.approved_by = Some(manager_id),
                !.approved_credit_limit =
                    Some(IF approved_credit_limit # 0 THEN approved_credit_limit
                         ELSE self.requested_credit_limit),
                !.processed_at = Some("utcnow")]

\* update_one({'_id': self.id}, {'$set': ...}): no condition on the stored status
ApproveUpdate(w) ==
    /\ reqs[w].pc = "approve_update"
    /\ LET id == reqs[w].target
           self == Val(reqs[w].obj)
       IN /\ card_applications' = [card_applications EXCEPT ![id] =
                 CardApplication_approve(@, self, reqs[w].manager, reqs[w].num)]
          /\ \E n \in modified_count(card_applications[id],
                     CardApplication_approve(card_applications[id], self,
                                             reqs[w].manager, reqs[w].num)) :
                IF n > 0
                THEN Continue(w, [reqs[w] EXCEPT !.pc = "approve_card",
                                     !.obj = Some(CardApplication_approve(
                                         self, self, reqs[w].manager, reqs[w].num))])
                ELSE Answer(w, Response("approve", id, 500, None))
    /\ UNCHANGED << credit_cards, transactions, issued_from, posts >>
    /\ UNCHANGED customers

\* CreditCard.create
CreditCard_create(customer_id, bank_name, credit_limit, current_balance) ==
    [customer_id |-> customer_id, bank_name |-> bank_name, credit_limit |-> credit_limit,
     current_balance |-> current_balance,
     available_credit |-> credit_limit - current_balance,
     is_active |-> TRUE, pin |-> None]

\* the customer lookup and the card insert
ApproveCard(w) ==
    /\ reqs[w].pc = "approve_card"
    /\ LET application == Val(reqs[w].obj)
       IN IF CustomerFound(application.customer_id)
          THEN /\ credit_cards' = Append(credit_cards,
                      CreditCard_create(application.customer_id, application.bank_name,
                                        reqs[w].num, 0))
               /\ issued_from' = Append(issued_from, reqs[w].target)
               /\ Continue(w, [reqs[w] EXCEPT !.pc = "approve_seed",
                                              !.card = Len(credit_cards) + 1])
          ELSE /\ Answer(w, Response("approve", reqs[w].target, 500, None))
               /\ UNCHANGED << credit_cards, issued_from >>
    /\ UNCHANGED << card_applications, transactions, posts >>
    /\ UNCHANGED customers

\* Transaction.create_sample_transactions: inserted as given, no reference number
SampleTxn(card_id, customer_id, type, amount) ==
    [card_id |-> card_id, customer_id |-> customer_id, transaction_type |-> type,
     amount |-> amount, status |-> "completed", reference_number |-> None]

create_sample_transactions(card_id, customer_id) ==
    << SampleTxn(card_id, customer_id, "purchase", 2500),
       SampleTxn(card_id, customer_id, "purchase", 800),
       SampleTxn(card_id, customer_id, "purchase", 1200),
       SampleTxn(card_id, customer_id, "purchase", 4500),
       SampleTxn(card_id, customer_id, "payment", 5000) >>

ApproveSeed(w) ==
    /\ reqs[w].pc = "approve_seed"
    /\ transactions' = transactions \o
          create_sample_transactions(reqs[w].card, Val(reqs[w].obj).customer_id)
    /\ Answer(w, Response("approve", reqs[w].target, 200,
                          Some([card_id |-> reqs[w].card, approved_limit |-> reqs[w].num])))
    /\ UNCHANGED << card_applications, credit_cards, issued_from, posts >>
    /\ UNCHANGED customers

\* ------------------------------------------------------ reject_application
\* data.get('rejection_reason', 'Application does not meet our criteria')
RejectionReason(reason) == IF IsSet(reason) THEN Val(reason) ELSE DefaultReason

\* mutant: any non-empty reason accepted
ValidReason_NonEmptyOnly(rejection_reason) == rejection_reason # << >>

ValidReason(rejection_reason) ==
    rejection_reason # << >> /\ Len(Strip(rejection_reason)) >= MinReasonLength

\* the reason is validated before the application is looked up
RejectCheck(id, reason) ==
    IF ~ValidReason(RejectionReason(reason)) THEN 400
    ELSE IF id > Len(card_applications) THEN 404
    ELSE IF card_applications[id].status # STATUS_PENDING THEN 409
    ELSE 0

RejectStart(w, m, id, reason) ==
    /\ Takes(w)
    /\ IF RejectCheck(id, reason) # 0
       THEN Answer(w, Response("reject", id, RejectCheck(id, reason), None))
       ELSE Continue(w, [IdleReq EXCEPT !.op = "reject", !.pc = "reject_update",
                                        !.manager = m, !.target = id,
                                        !.reason = Some(RejectionReason(reason)),
                                        !.obj = Some(card_applications[id])])
    /\ UNCHANGED << card_applications, credit_cards, transactions, issued_from, posts >>
    /\ UNCHANGED customers

\* CardApplication.reject: the fields it $sets on the stored document
CardApplication_reject(doc, manager_id, rejection_reason) ==
    [doc EXCEPT !.status = STATUS_REJECTED,
                !.approved_by = Some(manager_id),
                !.rejection_reason = Some(rejection_reason),
                !.processed_at = Some("utcnow")]

RejectUpdate(w) ==
    /\ reqs[w].pc = "reject_update"
    /\ card_applications' = [card_applications EXCEPT ![reqs[w].target] =
          CardApplication_reject(@, reqs[w].manager, Val(reqs[w].reason))]
    /\ \E n \in modified_count(card_applications[reqs[w].target],
               CardApplication_reject(card_applications[reqs[w].target],
                                      reqs[w].manager, Val(reqs[w].reason))) :
          Answer(w, Response("reject", reqs[w].target, IF n > 0 THEN 200 ELSE 500, None))
    /\ UNCHANGED << credit_cards, transactions, issued_from, posts >>
    /\ UNCHANGED customers

\* ------------------------------------------------------ CreditCard methods
\* the stored cards' ids and one id that is not in the store
CardIds == 1..(Len(credit_cards) + 1)

\* mutant: available_credit not recomputed
update_balance_StaleAvailable(self, amount, transaction_type) ==
    [self EXCEPT !.current_balance =
        IF transaction_type = "debit" THEN self.current_balance + amount
        ELSE Max(0, self.current_balance - amount)]

\* mutant: a credit not floored at 0
update_balance_NoFloor(self, amount, transaction_type) ==
    LET current_balance ==
            IF transaction_type = "debit" THEN self.current_balance + amount
            ELSE self.current_balance - amount
    IN [self EXCEPT !.current_balance = current_balance,
                    !.available_credit = self.credit_limit - current_balance]

\* CreditCard.update_balance on the handler's copy of the card
update_balance(self, amount, transaction_type) ==
    LET current_balance ==
            IF transaction_type = "debit" THEN self.current_balance + amount
            ELSE Max(0, self.current_balance - amount)
    IN [self EXCEPT !.current_balance = current_balance,
                    !.available_credit = self.credit_limit - current_balance]

\* CreditCard.update: $set of the two balance fields on the stored document
StoreBalance(doc, self) ==
    [doc EXCEPT !.current_balance = self.current_balance,
                !.available_credit = self.available_credit]

\* Transaction._generate_reference_number draws a code at random;
\* Transaction.create overwrites the status it is given
Transaction_create(card_id, customer_id, type, amount, ref) ==
    [card_id |-> card_id, customer_id |-> customer_id, transaction_type |-> type,
     amount |-> amount, status |-> TXN_STATUS_PENDING, reference_number |-> Some(ref)]

BalanceData(card) ==
    Some([new_balance |-> card.current_balance, available_credit |-> card.available_credit])

\* ------------------------------------------------------ create_transaction
\* mutant: the credit-limit check left out
TxnCheck_NoLimitCheck(c, id, amount) ==
    IF ~validate_transaction_amount(amount) THEN 400
    ELSE IF id > Len(credit_cards) \/ credit_cards[id].customer_id # c THEN 403
    ELSE 0

\* amount, ownership and credit-limit checks; 0 when the request passes
TxnCheck(c, id, amount) ==
    IF ~validate_transaction_amount(amount) THEN 400
    ELSE IF id > Len(credit_cards) \/ credit_cards[id].customer_id # c THEN 403
    ELSE IF credit_cards[id].current_balance + amount > credit_cards[id].credit_limit THEN 400
    ELSE 0

TxnStart(w, c, id, amount, type) ==
    /\ Takes(w)
    /\ IF TxnCheck(c, id, amount) # 0
       THEN /\ Answer(w, Response("txn", id, TxnCheck(c, id, amount), None))
            /\ UNCHANGED posts
       ELSE /\ posts < MaxPosts
            /\ posts' = posts + 1
            /\ Continue(w, [IdleReq EXCEPT !.op = "txn", !.pc = "txn_insert",
                                           !.customer = c, !.target = id, !.num = amount,
                                           !.kind = type, !.obj = Some(credit_cards[id])])
    /\ UNCHANGED << card_applications, credit_cards, transactions, issued_from >>
    /\ UNCHANGED customers

TxnInsert(w, ref) ==
    /\ reqs[w].pc = "txn_insert"
    /\ transactions' = Append(transactions,
          Transaction_create(reqs[w].target, reqs[w].customer, reqs[w].kind, reqs[w].num, ref))
    /\ Continue(w, [reqs[w] EXCEPT !.pc = "txn_balance"])
    /\ UNCHANGED << card_applications, credit_cards, issued_from, posts >>
    /\ UNCHANGED customers

TxnBalance(w) ==
    /\ reqs[w].pc = "txn_balance"
    /\ LET card == update_balance(Val(reqs[w].obj), reqs[w].num, "debit")
           doc == credit_cards[reqs[w].target]
       IN /\ credit_cards' = [credit_cards EXCEPT ![reqs[w].target] = StoreBalance(@, card)]
          \* what update_balance returns is not looked at
          /\ \E n \in modified_count(doc, StoreBalance(doc, card)) :
                Answer(w, Response("txn", reqs[w].target, 200, BalanceData(card)))
    /\ UNCHANGED << card_applications, transactions, issued_from, posts >>
    /\ UNCHANGED customers

\* ----------------------------------------------------------------- pay_bill
\* mutant: the balance check left out
PayCheck_NoBalanceCheck(c, id, amount) ==
    IF ~validate_transaction_amount(amount) THEN 400
    ELSE IF id > Len(credit_cards) THEN 404
    ELSE IF credit_cards[id].customer_id # c THEN 403
    ELSE 0

\* amount, existence, ownership and balance checks; 0 when the request passes
PayCheck(c, id, amount) ==
    IF ~validate_transaction_amount(amount) THEN 400
    ELSE IF id > Len(credit_cards) THEN 404
    ELSE IF credit_cards[id].customer_id # c THEN 403
    ELSE IF amount > credit_cards[id].current_balance THEN 400
    ELSE 0

PayStart(w, c, id, amount) ==
    /\ Takes(w)
    /\ IF PayCheck(c, id, amount) # 0
       THEN /\ Answer(w, Response("pay", id, PayCheck(c, id, amount), None))
            /\ UNCHANGED posts
       ELSE /\ posts < MaxPosts
            /\ posts' = posts + 1
            /\ Continue(w, [IdleReq EXCEPT !.op = "pay", !.pc = "pay_update",
                                           !.customer = c, !.target = id, !.num = amount,
                                           !.obj = Some(credit_cards[id])])
    /\ UNCHANGED << card_applications, credit_cards, transactions, issued_from >>
    /\ UNCHANGED customers

PayUpdate(w) ==
    /\ reqs[w].pc = "pay_update"
    /\ LET card == update_balance(Val(reqs[w].obj), reqs[w].num, "credit")
           doc == credit_cards[reqs[w].target]
       IN /\ credit_cards' = [credit_cards EXCEPT ![reqs[w].target] = StoreBalance(@, card)]
          /\ \E n \in modified_count(doc, StoreBalance(doc, card)) :
                IF n > 0
                THEN Continue(w, [reqs[w] EXCEPT !.pc = "pay_insert", !.obj = Some(card)])
                ELSE Answer(w, Response("pay", reqs[w].target, 500, None))
    /\ UNCHANGED << card_applications, transactions, issued_from, posts >>
    /\ UNCHANGED customers

PayInsert(w, ref) ==
    /\ reqs[w].pc = "pay_insert"
    /\ transactions' = Append(transactions,
          Transaction_create(reqs[w].target, reqs[w].customer, "payment", reqs[w].num, ref))
    /\ Answer(w, Response("pay", reqs[w].target, 200, BalanceData(Val(reqs[w].obj))))
    /\ UNCHANGED << card_applications, credit_cards, issued_from, posts >>
    /\ UNCHANGED customers

\* ------------------------------------------------------- failing requests
\* a store call raises after the handler's first write: the handler's except
\* clause answers 500 and what the handler has written so far stays written
Raise(w) ==
    /\ reqs[w].pc \in {"approve_card", "approve_seed", "txn_balance", "pay_insert",
                       "profile_score"}
    /\ Answer(w, Response(reqs[w].op, reqs[w].target, 500, None))
    /\ UNCHANGED << card_applications, credit_cards, transactions, issued_from, posts >>
    /\ UNCHANGED customers

Next ==
    \/ \E w \in Workers, c \in Customers, b \in Banks, l \in LimitInputs : ApplyStart(w, c, b, l)
    \/ \E w \in Workers : ApplyInsert(w)
    \/ \E w \in Workers, m \in Managers, id \in AppIds, l \in ApproveLimitInputs :
          ApproveStart(w, m, id, l)
    \/ \E w \in Workers : ApproveUpdate(w)
    \/ \E w \in Workers : ApproveCard(w)
    \/ \E w \in Workers : ApproveSeed(w)
    \/ \E w \in Workers, m \in Managers, id \in AppIds, r \in ReasonInputs :
          RejectStart(w, m, id, r)
    \/ \E w \in Workers : RejectUpdate(w)
    \/ \E w \in Workers, c \in Customers, id \in CardIds, a \in AmountInputs, t \in TxnTypes :
          TxnStart(w, c, id, a, t)
    \/ \E w \in Workers, ref \in RefNumbers : TxnInsert(w, ref)
    \/ \E w \in Workers : TxnBalance(w)
    \/ \E w \in Workers, c \in Customers, id \in CardIds, a \in AmountInputs :
          PayStart(w, c, id, a)
    \/ \E w \in Workers : PayUpdate(w)
    \/ \E w \in Workers, ref \in RefNumbers : PayInsert(w, ref)
    \/ \E w \in Workers : Raise(w)

Spec == Init /\ [][Next]_vars

\* ------------------------------------------------- the balance primitive
\* CreditCard.update_balance called directly on an issued card, with any
\* positive amount and without the routes' checks
LedgerAmounts == {2500, 5000, 60000, 100000}

LedgerInit ==
    /\ card_applications = << >>
    /\ \E l \in {x \in LimitInputs : validate_credit_limit(x)}, b \in Banks :
          credit_cards = << CreditCard_create(1, b, l, 0) >>
    /\ transactions = << >>
    /\ issued_from = << 0 >>
    /\ reqs = [w \in Workers |-> IdleReq]
    /\ response = NoResponse
    /\ posts = 0
    /\ customers = << >>

LedgerCall(amount, transaction_type) ==
    /\ posts < MaxLedgerOps
    /\ posts' = posts + 1
    /\ credit_cards' = [credit_cards EXCEPT ![1] =
          StoreBalance(@, update_balance(@, amount, transaction_type))]
    /\ response' = Response(transaction_type, 1, 200,
          Some([amount |-> amount, before |-> credit_cards[1].current_balance]))
    /\ UNCHANGED << card_applications, transactions, issued_from, reqs >>
    /\ UNCHANGED customers

Debit(amount) == LedgerCall(amount, "debit")

Credit(amount) == LedgerCall(amount, "credit")

LedgerNext ==
    \/ \E a \in LedgerAmounts : Debit(a)
    \/ \E a \in LedgerAmounts : Credit(a)

SpecLedger == LedgerInit /\ [][LedgerNext]_vars

\* ------------------------------------------------ set_card_pin, remove_card
Digits == {"0", "1", "2", "3", "4", "5", "6", "7", "8", "9"}

\* PINs as character sequences
PinGood == << "1", "2", "3", "4" >>
PinShort == << "1", "2", "3" >>
PinAlpha == << "1", "2", "a", "4" >>
PinNewline == << "1", "2", "3", "4", "\n" >>
PinInputs == {None, Some(PinGood), Some(PinShort), Some(PinAlpha), Some(PinNewline)}

\* Validators.validate_pin: re.match(r'^\d{4}$', pin) takes four digits, and
\* its $ also matches before a final newline
validate_pin(pin) ==
    /\ IsSet(pin)
    /\ Val(pin) # << >>
    /\ Len(Val(pin)) \in {4, 5}
    /\ \A i \in 1..4 : Val(pin)[i] \in Digits
    /\ Len(Val(pin)) = 5 => Val(pin)[5] = "\n"

\* CreditCard.set_pin and CreditCard.delete: the field each $sets
set_pin(doc, pin) == [doc EXCEPT !.pin = pin]

\* mutant: removal flips is_active
CreditCard_delete_Toggle(doc) == [doc EXCEPT !.is_active = ~@]

CreditCard_delete(doc) == [doc EXCEPT !.is_active = FALSE]

\* mutant: the ownership check left out
PinCheck_NoOwnerCheck(c, id, pin) ==
    IF ~validate_pin(pin) THEN 400
    ELSE IF id > Len(credit_cards) THEN 404
    ELSE 0

\* the PIN is validated before the card is looked up; 0 when the request passes
PinCheck(c, id, pin) ==
    IF ~validate_pin(pin) THEN 400
    ELSE IF id > Len(credit_cards) THEN 404
    ELSE IF credit_cards[id].customer_id # c THEN 403
    ELSE 0

PinStart(w, c, id, pin) ==
    /\ Takes(w)
    /\ IF PinCheck(c, id, pin) # 0
       THEN /\ Answer(w, Response("pin", id, PinCheck(c, id, pin), None))
            /\ UNCHANGED posts
       ELSE /\ posts < MaxPosts
            /\ posts' = posts + 1
            /\ Continue(w, [IdleReq EXCEPT !.op = "pin", !.pc = "pin_update",
                                           !.customer = c, !.target = id, !.pin = pin,
                                           !.obj = Some(credit_cards[id])])
    /\ UNCHANGED << card_applications, credit_cards, transactions, issued_from >>
    /\ UNCHANGED customers

PinUpdate(w) ==
    /\ reqs[w].pc = "pin_update"
    /\ credit_cards' = [credit_cards EXCEPT ![reqs[w].target] = set_pin(@, reqs[w].pin)]
    /\ \E n \in modified_count(credit_cards[reqs[w].target],
                                set_pin(credit_cards[reqs[w].target], reqs[w].pin)) :
          Answer(w, Response("pin", reqs[w].target, IF n > 0 THEN 200 ELSE 500, None))
    /\ UNCHANGED << card_applications, transactions, issued_from, posts >>
    /\ UNCHANGED customers

RemoveCheck(c, id) ==
    IF id > Len(credit_cards) THEN 404
    ELSE IF credit_cards[id].customer_id # c THEN 403
    ELSE 0

RemoveStart(w, c, id) ==
    /\ Takes(w)
    /\ IF RemoveCheck(c, id) # 0
       THEN /\ Answer(w, Response("remove", id, RemoveCheck(c, id), None))
            /\ UNCHANGED posts
       ELSE /\ posts < MaxPosts
            /\ posts' = posts + 1
            /\ Continue(w, [IdleReq EXCEPT !.op = "remove", !.pc = "remove_update",
                                           !.customer = c, !.target = id,
                                           !.obj = Some(credit_cards[id])])
    /\ UNCHANGED << card_applications, credit_cards, transactions, issued_from >>
    /\ UNCHANGED customers

RemoveUpdate(w) ==
    /\ reqs[w].pc = "remove_update"
    /\ credit_cards' = [credit_cards EXCEPT ![reqs[w].target] = CreditCard_delete(@)]
    /\ \E n \in modified_count(credit_cards[reqs[w].target],
                                CreditCard_delete(credit_cards[reqs[w].target])) :
          Answer(w, Response("remove", reqs[w].target, IF n > 0 THEN 200 ELSE 500, None))
    /\ UNCHANGED << card_applications, transactions, issued_from, posts >>
    /\ UNCHANGED customers

\* --------------------------------------------- requests on an issued card
\* Customer 1's application has been approved by the manager: the card and
\* its sample transactions are stored.  Both customers post transactions of
\* every kind, pay, set PINs and remove cards.
TRANSACTION_TYPES == {"purchase", "payment", "refund", "cash_advance", "fee", "interest"}

\* an amount that passes validate_transaction_amount and one that does not
CardsAmounts == {5000, 200000}

CardsInit ==
    /\ \E b \in Banks :
          /\ card_applications =
                << CardApplication_approve(CardApplication_create(1, b, 100000),
                                           CardApplication_create(1, b, 100000), "m1", 100000) >>
          /\ credit_cards = << CreditCard_create(1, b, 100000, 0) >>
    /\ transactions = create_sample_transactions(1, 1)
    /\ issued_from = << 1 >>
    /\ reqs = [w \in Workers |-> IdleReq]
    /\ response = NoResponse
    /\ posts = 0
    /\ customers = << >>

CardsNext ==
    \/ \E w \in Workers, c \in Customers, id \in CardIds, a \in CardsAmounts,
          t \in TRANSACTION_TYPES : TxnStart(w, c, id, a, t)
    \/ \E w \in Workers, ref \in RefNumbers : TxnInsert(w, ref)
    \/ \E w \in Workers : TxnBalance(w)
    \/ \E w \in Workers, c \in Customers, id \in CardIds, a \in CardsAmounts :
          PayStart(w, c, id, a)
    \/ \E w \in Workers : PayUpdate(w)
    \/ \E w \in Workers, ref \in RefNumbers : PayInsert(w, ref)
    \/ \E w \in Workers, c \in Customers, id \in CardIds, p \in PinInputs :
          PinStart(w, c, id, p)
    \/ \E w \in Workers : PinUpdate(w)
    \/ \E w \in Workers, c \in Customers, id \in CardIds : RemoveStart(w, c, id)
    \/ \E w \in Workers : RemoveUpdate(w)
    \/ \E w \in Workers : Raise(w)

SpecCards == CardsInit /\ [][CardsNext]_vars

\* ------------------------------------------------- the issuance workflow
\* Applications, their resolution and card removal, with a second application
\* and two approved limits; the requests are handled one at a time
MaxIssueApplications == 2

IssueWorkers == {1}
IssueLimitInputs == {5000, 100000, 1000001}
IssueApproveLimitInputs == {None, Some(5000), Some(200000)}
IssueReasonInputs == {Some(ReasonShort), Some(ReasonValid)}

\* apply_for_card; a refused request is answered at once
IssueApplyStart(w, c, bank, limit) ==
    /\ Takes(w)
    /\ c <= Len(card_applications) + InFlight("apply") + 1
    /\ IF ApplyCheck(c, bank, limit) # 0
       THEN Answer(w, Response("apply", 0, ApplyCheck(c, bank, limit), None))
       ELSE /\ Len(card_applications) + InFlight("apply") < MaxIssueApplications
            /\ Continue(w, [IdleReq EXCEPT !.op = "apply", !.pc = "apply_insert",
                                           !.customer = c, !.bank = bank, !.num = limit])
    /\ UNCHANGED << card_applications, credit_cards, transactions, issued_from, posts >>
    /\ UNCHANGED customers

IssueNext ==
    \/ \E w \in IssueWorkers, c \in Customers, b \in Banks, l \in IssueLimitInputs :
          IssueApplyStart(w, c, b, l)
    \/ \E w \in IssueWorkers : ApplyInsert(w)
    \/ \E w \in IssueWorkers, m \in Managers, id \in AppIds, l \in IssueApproveLimitInputs :
          ApproveStart(w, m, id, l)
    \/ \E w \in IssueWorkers : ApproveUpdate(w)
    \/ \E w \in IssueWorkers : ApproveCard(w)
    \/ \E w \in IssueWorkers : ApproveSeed(w)
    \/ \E w \in IssueWorkers, m \in Managers, id \in AppIds, r \in IssueReasonInputs :
          RejectStart(w, m, id, r)
    \/ \E w \in IssueWorkers : RejectUpdate(w)
    \/ \E w \in IssueWorkers, c \in Customers, id \in CardIds : RemoveStart(w, c, id)
    \/ \E w \in IssueWorkers : RemoveUpdate(w)
    \/ \E w \in IssueWorkers : Raise(w)

SpecIssue == Init /\ [][IssueNext]_vars

\* ------------------------------------------- concurrent approval requests
\* One application, resolved by requests that interleave and carry different
\* limits
ApprovalNext ==
    \/ \E w \in Workers, c \in Customers, b \in Banks, l \in IssueLimitInputs :
          ApplyStart(w, c, b, l)
    \/ \E w \in Workers : ApplyInsert(w)
    \/ \E w \in Workers, m \in Managers, id \in AppIds, l \in IssueApproveLimitInputs :
          ApproveStart(w, m, id, l)
    \/ \E w \in Workers : ApproveUpdate(w)
    \/ \E w \in Workers : ApproveCard(w)
    \/ \E w \in Workers : ApproveSeed(w)
    \/ \E w \in Workers, m \in Managers, id \in AppIds, r \in IssueReasonInputs :
          RejectStart(w, m, id, r)
    \/ \E w \in Workers : RejectUpdate(w)
    \/ \E w \in Workers : Raise(w)

SpecApproval == Init /\ [][ApprovalNext]_vars

\* --------------------------------------------------- calculate_cibil_score
\* Python's float results are kept exactly, as multiples of 1/ScoreScale: a
\* score v is the number v * ScoreScale
ScoreScale == 10000
MinScore == 300
MaxScore == 900

Min(a, b) == IF a <= b THEN a ELSE b

\* mutant: the result not clamped
calculate_cibil_score_NoClamp(customer_data) ==
    LET income == 300 + (IF customer_data.annual_income >= 1000000 THEN 200
                         ELSE IF customer_data.annual_income >= 500000 THEN 150
                         ELSE IF customer_data.annual_income >= 300000 THEN 100
                         ELSE 0)
        experience == income + (IF customer_data.years_of_experience >= 5 THEN 100
                                ELSE IF customer_data.years_of_experience >= 2 THEN 50
                                ELSE 0)
        employment == experience + (IF customer_data.employment_type = "salaried" THEN 100
                                    ELSE IF customer_data.employment_type = "self_employed" THEN 50
                                    ELSE 0)
        age == employment + (IF 25 <= customer_data.age /\ customer_data.age <= 35 THEN 50
                             ELSE IF 36 <= customer_data.age /\ customer_data.age <= 45 THEN 75
                             ELSE 0)
    IN IF customer_data.existing_loan_amount > 0
       THEN age * ScoreScale - Min(customer_data.existing_loan_amount, 100 * ScoreScale)
       ELSE age * ScoreScale

\* mutant: the income thresholds exclusive
calculate_cibil_score_ExclusiveTiers(customer_data) ==
    LET income == 300 + (IF customer_data.annual_income > 1000000 THEN 200
                         ELSE IF customer_data.annual_income > 500000 THEN 150
                         ELSE IF customer_data.annual_income > 300000 THEN 100
                         ELSE 0)
        experience == income + (IF customer_data.years_of_experience >= 5 THEN 100
                                ELSE IF customer_data.years_of_experience >= 2 THEN 50
                                ELSE 0)
        employment == experience + (IF customer_data.employment_type = "salaried" THEN 100
                                    ELSE IF customer_data.employment_type = "self_employed" THEN 50
                                    ELSE 0)
        age == employment + (IF 25 <= customer_data.age /\ customer_data.age <= 35 THEN 50
                             ELSE IF 36 <= customer_data.age /\ customer_data.age <= 45 THEN 75
                             ELSE 0)
        score == IF customer_data.existing_loan_amount > 0
                 THEN age * ScoreScale
                      - Min(customer_data.existing_loan_amount, 100 * ScoreScale)
                 ELSE age * ScoreScale
    IN Min(Max(score, MinScore * ScoreScale), MaxScore * ScoreScale)

\* mutant: self-employment valued above salaried employment
calculate_cibil_score_SelfEmployedFirst(customer_data) ==
    LET income == 300 + (IF customer_data.annual_income >= 1000000 THEN 200
                         ELSE IF customer_data.annual_income >= 500000 THEN 150
                         ELSE IF customer_data.annual_income >= 300000 THEN 100
                         ELSE 0)
        experience == income + (IF customer_data.years_of_experience >= 5 THEN 100
                                ELSE IF customer_data.years_of_experience >= 2 THEN 50
                                ELSE 0)
        employment == experience + (IF customer_data.employment_type = "salaried" THEN 50
                                    ELSE IF customer_data.employment_type = "self_employed" THEN 100
                                    ELSE 0)
        age == employment + (IF 25 <= customer_data.age /\ customer_data.age <= 35 THEN 50
                             ELSE IF 36 <= customer_data.age /\ customer_data.age <= 45 THEN 75
                             ELSE 0)
        score == IF customer_data.existing_loan_amount > 0
                 THEN age * ScoreScale
                      - Min(customer_data.existing_loan_amount, 100 * ScoreScale)
                 ELSE age * ScoreScale
    IN Min(Max(score, MinScore * ScoreScale), MaxScore * ScoreScale)

\* Customer.calculate_cibil_score: min(existing_loan / 10000, 100) is
\* Min(existing_loan, 100 * ScoreScale) in units of 1/ScoreScale
calculate_cibil_score(customer_data) ==
    LET income == 300 + (IF customer_data.annual_income >= 1000000 THEN 200
                         ELSE IF customer_data.annual_income >= 500000 THEN 150
                         ELSE IF customer_data.annual_income >= 300000 THEN 100
                         ELSE 0)
        experience == income + (IF customer_data.years_of_experience >= 5 THEN 100
                                ELSE IF customer_data.years_of_experience >= 2 THEN 50
                                ELSE 0)
        employment == experience + (IF customer_data.employment_type = "salaried" THEN 100
                                    ELSE IF customer_data.employment_type = "self_employed" THEN 50
                                    ELSE 0)
        age == employment + (IF 25 <= customer_data.age /\ customer_data.age <= 35 THEN 50
                             ELSE IF 36 <= customer_data.age /\ customer_data.age <= 45 THEN 75
                             ELSE 0)
        score == IF customer_data.existing_loan_amount > 0
                 THEN age * ScoreScale
                      - Min(customer_data.existing_loan_amount, 100 * ScoreScale)
                 ELSE age * ScoreScale
    IN Min(Max(score, MinScore * ScoreScale), MaxScore * ScoreScale)

\* applicant attributes around every tier boundary
IncomeInputs == {0, 299999, 300000, 499999, 500000, 600000, 999999, 1000000}
ExperienceInputs == {0, 1, 2, 3, 4, 5, 6}
EmploymentInputs == {"salaried", "self_employed", "unemployed"}
AgeInputs == {18, 24, 25, 35, 36, 45, 46}
LoanInputs == {0, 1, 5000, 10000, 995000, 1000000, 1005000, 2000000}

ScoreInputs ==
    [annual_income : IncomeInputs, years_of_experience : ExperienceInputs,
     employment_type : EmploymentInputs, age : AgeInputs,
     existing_loan_amount : LoanInputs]

ScoreInit ==
    /\ card_applications = << >>
    /\ credit_cards = << >>
    /\ transactions = << >>
    /\ issued_from = << >>
    /\ reqs = [w \in Workers |-> IdleReq]
    /\ \E customer_data \in ScoreInputs :
          response = Response("score_input", 0, 0, Some(customer_data))
    /\ posts = 0
    /\ customers = << >>

ScoreCall ==
    /\ response.op = "score_input"
    /\ response' = Response("score", 0, 200,
          Some([customer_data |-> Val(response.data),
                score |-> calculate_cibil_score(Val(response.data))]))
    /\ UNCHANGED << card_applications, credit_cards, transactions, issued_from, reqs, posts >>
    /\ UNCHANGED customers

ScoreNext == ScoreCall

SpecScore == ScoreInit /\ [][ScoreNext]_vars

\* ------------------------------------------------------------- customers
MaxCustomers == 1
MinAge == 18
MaxAge == 100
MaxYearsOfExperience == 50

validate_age(age) == age >= MinAge /\ age <= MaxAge

validate_annual_income(income) == income >= 0

validate_years_of_experience(yoe) == yoe >= 0 /\ yoe <= MaxYearsOfExperience

RegisterInputs ==
    [annual_income : {299999, 600000}, years_of_experience : {3},
     employment_type : {"salaried"}, age : {17, 25},
     existing_loan_amount : {0, 5000}]

\* update_profile's request body: the editable attributes it holds
ProfileInputs ==
    [annual_income : {None, Some(0 - 1), Some(1000000)},
     years_of_experience : {None, Some(5), Some(51)}]

\* Customer.create: the document inserted
Customer_create(customer_data) == [customer_data EXCEPT !.cibil_score = 0]

\* Customer.update: $set of the fields of update_data
Customer_update(doc, update_data) ==
    [doc EXCEPT !.annual_income =
                    IF update_data.annual_income # None
                    THEN Val(update_data.annual_income) ELSE @,
                !.years_of_experience =
                    IF update_data.years_of_experience # None
                    THEN Val(update_data.years_of_experience) ELSE @]

RegisterCheck(data) ==
    IF ~validate_age(data.age) \/ ~validate_annual_income(data.annual_income) THEN 400
    ELSE 0

\* register_customer: the score is computed from the request, the customer
\* is inserted by Customer.create, and the computed score is returned
RegisterCustomer(w, data) ==
    /\ Takes(w)
    /\ IF RegisterCheck(data) # 0
       THEN /\ Answer(w, Response("register", 0, RegisterCheck(data), None))
            /\ UNCHANGED customers
       ELSE /\ Len(customers) < MaxCustomers
            /\ customers' = Append(customers,
                  Customer_create(
                      [annual_income |-> data.annual_income,
                       years_of_experience |-> data.years_of_experience,
                       employment_type |-> data.employment_type,
                       age |-> data.age,
                       existing_loan_amount |-> data.existing_loan_amount,
                       cibil_score |-> calculate_cibil_score(data)]))
            /\ Answer(w, Response("register", Len(customers) + 1, 200,
                  Some([cibil_score |-> calculate_cibil_score(data)])))
    /\ UNCHANGED << card_applications, credit_cards, transactions, issued_from, posts >>

ProfileCheck(update_data) ==
    IF /\ update_data.annual_income # None
       /\ ~validate_annual_income(Val(update_data.annual_income)) THEN 400
    ELSE IF /\ update_data.years_of_experience # None
            /\ ~validate_years_of_experience(Val(update_data.years_of_experience)) THEN 400
    ELSE IF update_data.annual_income = None /\ update_data.years_of_experience = None
    THEN 400
    ELSE 0

\* update_profile: the customer is the one read when the request was
\* authenticated
ProfileStart(w, c, update_data) ==
    /\ Takes(w)
    /\ c <= Len(customers)
    /\ IF ProfileCheck(update_data) # 0
       THEN /\ Answer(w, Response("profile", c, ProfileCheck(update_data), None))
            /\ UNCHANGED posts
       ELSE /\ posts < MaxPosts
            /\ posts' = posts + 1
            /\ Continue(w, [IdleReq EXCEPT !.op = "profile", !.pc = "profile_update",
                                           !.customer = c, !.target = c,
                                           !.data = Some(update_data),
                                           !.obj = Some(customers[c])])
    /\ UNCHANGED << customers, card_applications, credit_cards, transactions, issued_from >>

\* customer.update(update_data)
ProfileUpdate(w) ==
    /\ reqs[w].pc = "profile_update"
    /\ customers' = [customers EXCEPT ![reqs[w].target] =
                        Customer_update(@, Val(reqs[w].data))]
    /\ Continue(w, [reqs[w] EXCEPT !.pc = "profile_score",
                        !.obj = Some(Customer_update(Val(@), Val(reqs[w].data)))])
    /\ UNCHANGED << card_applications, credit_cards, transactions, issued_from, posts >>

\* customer.update({'cibil_score': new_cibil_score})
ProfileScore(w) ==
    /\ reqs[w].pc = "profile_score"
    /\ LET new_cibil_score ==
               calculate_cibil_score(Customer_update(Val(reqs[w].obj), Val(reqs[w].data)))
       IN /\ customers' = [customers EXCEPT ![reqs[w].target].cibil_score = new_cibil_score]
          /\ Answer(w, Response("profile", reqs[w].target, 200,
                Some([Val(reqs[w].obj) EXCEPT !.cibil_score = new_cibil_score])))
    /\ UNCHANGED << card_applications, credit_cards, transactions, issued_from, posts >>

\* get_cibil_score: the customer is the one read when the request was
\* authenticated
ScoreQueryStart(w, c) ==
    /\ Takes(w)
    /\ c <= Len(customers)
    /\ posts < MaxPosts
    /\ posts' = posts + 1
    /\ Continue(w, [IdleReq EXCEPT !.op = "cibil", !.pc = "cibil_update",
                                   !.customer = c, !.target = c,
                                   !.obj = Some(customers[c])])
    /\ UNCHANGED << customers, card_applications, credit_cards, transactions, issued_from >>

\* customer.update({'cibil_score': current_score})
ScoreQueryUpdate(w) ==
    /\ reqs[w].pc = "cibil_update"
    /\ LET current_score == calculate_cibil_score(Val(reqs[w].obj))
       IN /\ customers' = [customers EXCEPT ![reqs[w].target].cibil_score = current_score]
          /\ Answer(w, Response("cibil", reqs[w].target, 200,
                Some([cibil_score |-> current_score])))
    /\ UNCHANGED << card_applications, credit_cards, transactions, issued_from, posts >>

CustomersNext ==
    \/ \E w \in Workers, data \in RegisterInputs : RegisterCustomer(w, data)
    \/ \E w \in Workers, c \in Customers, u \in ProfileInputs : ProfileStart(w, c, u)
    \/ \E w \in Workers : ProfileUpdate(w)
    \/ \E w \in Workers : ProfileScore(w)
    \/ \E w \in Workers, c \in Customers : ScoreQueryStart(w, c)
    \/ \E w \in Workers : ScoreQueryUpdate(w)
    \/ \E w \in Workers : Raise(w)

SpecCustomers == Init /\ [][CustomersNext]_vars

\* ================================================================= claims
Resolved(id) ==
    id <= Len(card_applications) /\ card_applications[id].status # STATUS_PENDING

\* a step in which a request of kind op on target id has been taken up: it
\* was answered at once or a worker has gone on with it
Taken(op, id) ==
    \/ response' # response /\ response'.op = op /\ response'.target = id
    \/ \E w \in Workers : Free(w) /\ ~Free(w)' /\ reqs'[w].op = op /\ reqs'[w].target = id

\* the cards issued from application id
CardsOf(id) == {k \in 1..Len(credit_cards) : issued_from[k] = id}

Owns(c, id) == id <= Len(credit_cards) /\ credit_cards[id].customer_id = c

\* C1 as stated: every approve or reject request made on an application that
\* is already resolved is answered 409 at once, and the application records
\* and the cards stay as they are.
C1_ResolvedRequestConflicts ==
    [][ \A id \in AppIds : Resolved(id) =>
          /\ Taken("approve", id) =>
                \A w \in Workers, m \in Managers, l \in ApproveLimitInputs :
                    ApproveStart(w, m, id, l) =>
                        /\ response'.code = 409 /\ Free(w)'
                        /\ UNCHANGED << card_applications, credit_cards >>
          /\ Taken("reject", id) =>
                \A w \in Workers, m \in Managers, r \in ReasonInputs :
                    RejectStart(w, m, id, r) =>
                        /\ response'.code = 409 /\ Free(w)'
                        /\ UNCHANGED << card_applications, credit_cards >> ]_vars

\* C1 amended: on a resolved application every approve request, and every
\* reject request whose reason has at least 10 characters after stripping, is
\* answered 409; a reject request with a shorter reason is answered 400; in
\* each case the application records and the cards stay as they are.
C1_ResolvedRequestFails ==
    [][ \A id \in AppIds : Resolved(id) =>
          /\ Taken("approve", id) =>
                \A w \in Workers, m \in Managers, l \in ApproveLimitInputs :
                    ApproveStart(w, m, id, l) =>
                        /\ response'.code = 409 /\ Free(w)'
                        /\ UNCHANGED << card_applications, credit_cards >>
          /\ Taken("reject", id) =>
                \A w \in Workers, m \in Managers, r \in ReasonInputs :
                    RejectStart(w, m, id, r) =>
                        /\ response'.code =
                              IF ValidReason(RejectionReason(r)) THEN 409 ELSE 400
                        /\ Free(w)'
                        /\ UNCHANGED << card_applications, credit_cards >> ]_vars

\* a resolution request has just been answered 409 on a resolved application
C1_Witness ==
    /\ response.op \in {"approve", "reject"}
    /\ response.code = 409
    /\ Resolved(response.target)

\* C2: a pending application has neither approved_credit_limit nor
\* rejection_reason; an approved one has approved_credit_limit only; a
\* rejected one has rejection_reason only.
C2_ResolutionFieldsExclusive ==
    \A id \in 1..Len(card_applications) :
        LET a == card_applications[id]
        IN /\ a.status = STATUS_PENDING =>
                  ~IsSet(a.approved_credit_limit) /\ ~IsSet(a.rejection_reason)
           /\ a.status = STATUS_APPROVED =>
                  IsSet(a.approved_credit_limit) /\ ~IsSet(a.rejection_reason)
           /\ a.status = STATUS_REJECTED =>
                  IsSet(a.rejection_reason) /\ ~IsSet(a.approved_credit_limit)

\* C3: no application has more than one card issued from it, and when an
\* approve request has just answered 200 the applicant's active cards hold
\* exactly one card issued from the application, with the application's bank
\* and, as long as nothing was posted, balance 0 and the whole limit available.
C3_OneCardPerApproval ==
    /\ \A id \in 1..Len(card_applications) : Cardinality(CardsOf(id)) <= 1
    /\ (response.op = "approve" /\ response.code = 200) =>
          LET id == response.target
              a == card_applications[id]
              mine == CardsOf(id) \cap find_by_customer_id(a.customer_id)
          IN /\ Cardinality(mine) = 1
             /\ \A k \in mine :
                   /\ credit_cards[k].bank_name = a.bank_name
                   /\ posts = 0 =>
                         /\ credit_cards[k].current_balance = 0
                         /\ credit_cards[k].available_credit = credit_cards[k].credit_limit

\* C4: an application whose status is approved has a card issued from it.
C4_ApprovedHasCard ==
    \A id \in 1..Len(card_applications) :
        card_applications[id].status = STATUS_APPROVED => CardsOf(id) # {}

\* C5: an application whose status is rejected has no card issued from it.
C5_RejectedHasNoCard ==
    \A id \in 1..Len(card_applications) :
        card_applications[id].status = STATUS_REJECTED => CardsOf(id) = {}

\* C6: every stored card has available_credit = credit_limit - current_balance.
C6_AvailableCredit ==
    \A k \in 1..Len(credit_cards) :
        credit_cards[k].available_credit =
            credit_cards[k].credit_limit - credit_cards[k].current_balance

\* a bill payment has been answered 200 on a card that still carries a balance
C6_Witness ==
    /\ response.op = "pay" /\ response.code = 200
    /\ \E k \in 1..Len(credit_cards) :
          /\ credit_cards[k].current_balance > 0
          /\ credit_cards[k].current_balance < credit_cards[k].credit_limit

\* C7: no stored card has a negative current_balance, and a credit of more
\* than the balance leaves the balance 0 and the whole limit available.
C7_BalanceNeverNegative ==
    /\ \A k \in 1..Len(credit_cards) : credit_cards[k].current_balance >= 0
    /\ (response.op = "credit" /\ Val(response.data).amount > Val(response.data).before) =>
          /\ credit_cards[response.target].current_balance = 0
          /\ credit_cards[response.target].available_credit =
                credit_cards[response.target].credit_limit

\* a credit of more than a positive balance has been applied
C7_Witness ==
    /\ response.op = "credit"
    /\ Val(response.data).before > 0
    /\ Val(response.data).amount > Val(response.data).before

\* C8: a transaction-creation request of the card's owner with
\* current_balance + amount > credit_limit is answered 400 at once and leaves
\* the cards and the transaction records as they are; and no stored card's
\* current_balance exceeds its credit_limit.
C8_CreditLimitEnforced ==
    [][ /\ \A id \in 1..Len(credit_cards) : Taken("txn", id) =>
              \A w \in Workers, c \in Customers, a \in AmountInputs, t \in TxnTypes :
                  ( /\ Owns(c, id)
                    /\ credit_cards[id].current_balance + a > credit_cards[id].credit_limit
                    /\ TxnStart(w, c, id, a, t) ) =>
                      /\ response'.code = 400 /\ Free(w)'
                      /\ UNCHANGED << credit_cards, transactions >>
        /\ \A k \in 1..Len(credit_cards') :
              credit_cards'[k].current_balance <= credit_cards'[k].credit_limit ]_vars

\* a transaction has been refused on a card whose balance has reached its limit
C8_Witness ==
    /\ response.op = "txn" /\ response.code = 400
    /\ response.target <= Len(credit_cards)
    /\ credit_cards[response.target].current_balance = credit_cards[response.target].credit_limit

C10_PaymentAfterApprovalSucceeds ==
    [][ \A id \in 1..Len(credit_cards) :
          ( /\ response.op = "approve" /\ response.code = 200
            /\ Val(response.data).card_id = id
            /\ credit_cards[id].credit_limit = 100000
            /\ Taken("pay", id) ) =>
              \A w \in Workers, c \in Customers :
                  (Owns(c, id) /\ PayStart(w, c, id, 5000)) =>
                      reqs'[w].op = "pay" /\ reqs'[w].pc = "pay_update" ]_vars

\* C17: when a transaction-creation request completes, the stored balance of
\* its card goes up by the amount for the kinds purchase, fee, interest and
\* cash_advance, and down by the amount for the kinds payment and refund.
C17_SignedEffect ==
    [][ \A w \in Workers : (reqs[w].pc = "txn_balance" /\ TxnBalance(w)) =>
          credit_cards'[reqs[w].target].current_balance =
              IF reqs[w].kind \in {"payment", "refund"}
              THEN credit_cards[reqs[w].target].current_balance - reqs[w].num
              ELSE credit_cards[reqs[w].target].current_balance + reqs[w].num ]_vars

\* C20 as stated: a transaction-creation, bill-payment, PIN-setting or
\* card-removal request on a stored card, made by a customer who does not own
\* it, is answered 403 at once and leaves the cards and the transaction
\* records as they are.
C20_NonOwnerForbidden ==
    [][ \A id \in 1..Len(credit_cards) : \A c \in Customers : ~Owns(c, id) =>
          /\ Taken("txn", id) =>
                \A w \in Workers, a \in CardsAmounts, t \in TRANSACTION_TYPES :
                    TxnStart(w, c, id, a, t) =>
                        /\ response'.code = 403 /\ Free(w)'
                        /\ UNCHANGED << credit_cards, transactions >>
          /\ Taken("pay", id) =>
                \A w \in Workers, a \in CardsAmounts :
                    PayStart(w, c, id, a) =>
                        /\ response'.code = 403 /\ Free(w)'
                        /\ UNCHANGED << credit_cards, transactions >>
          /\ Taken("pin", id) =>
                \A w \in Workers, p \in PinInputs :
                    PinStart(w, c, id, p) =>
                        /\ response'.code = 403 /\ Free(w)'
                        /\ UNCHANGED << credit_cards, transactions >>
          /\ Taken("remove", id) =>
                \A w \in Workers :
                    RemoveStart(w, c, id) =>
                        /\ response'.code = 403 /\ Free(w)'
                        /\ UNCHANGED << credit_cards, transactions >> ]_vars

\* C20 amended: such a request is refused at once and leaves the cards and the
\* transaction records as they are; it is answered 403 when its amount or PIN
\* passes validation (a card removal always), and 400 when it does not.
C20_NonOwnerRefused ==
    [][ \A id \in 1..Len(credit_cards) : \A c \in Customers : ~Owns(c, id) =>
          /\ Taken("txn", id) =>
                \A w \in Workers, a \in CardsAmounts, t \in TRANSACTION_TYPES :
                    TxnStart(w, c, id, a, t) =>
                        /\ response'.code =
                              IF validate_transaction_amount(a) THEN 403 ELSE 400
                        /\ Free(w)'
                        /\ UNCHANGED << credit_cards, transactions >>
          /\ Taken("pay", id) =>
                \A w \in Workers, a \in CardsAmounts :
                    PayStart(w, c, id, a) =>
                        /\ response'.code =
                              IF validate_transaction_amount(a) THEN 403 ELSE 400
                        /\ Free(w)'
                        /\ UNCHANGED << credit_cards, transactions >>
          /\ Taken("pin", id) =>
                \A w \in Workers, p \in PinInputs :
                    PinStart(w, c, id, p) =>
                        /\ response'.code = IF validate_pin(p) THEN 403 ELSE 400
                        /\ Free(w)'
                        /\ UNCHANGED << credit_cards, transactions >>
          /\ Taken("remove", id) =>
                \A w \in Workers :
                    RemoveStart(w, c, id) =>
                        /\ response'.code = 403 /\ Free(w)'
                        /\ UNCHANGED << credit_cards, transactions >> ]_vars

\* a PIN-setting request has been answered 403 on a card whose owner has set
\* a PIN
C20_Witness ==
    /\ response.op = "pin" /\ response.code = 403
    /\ response.target <= Len(credit_cards)
    /\ IsSet(credit_cards[response.target].pin)

\* C18: every transaction record stored by Transaction.create, for a
\* transaction-creation or bill-payment request, has status completed.
C18_PostedCompleted ==
    \A i \in 1..Len(transactions) :
        IsSet(transactions[i].reference_number) => transactions[i].status = "completed"

\* C19: every stored transaction has a reference code, and no two stored
\* transactions share one.
C19_ReferenceUnique ==
    /\ \A i \in 1..Len(transactions) : IsSet(transactions[i].reference_number)
    /\ \A i, j \in 1..Len(transactions) :
          i # j => transactions[i].reference_number # transactions[j].reference_number

\* C14: a card application whose requested limit is outside [10000, 1000000]
\* is answered 400 at once and stores no application; every stored
\* application has its requested limit within the range, and an application
\* is stored with status pending.
C14_LimitValidated ==
    [][ /\ Taken("apply", 0) =>
              \A w \in IssueWorkers, c \in Customers, b \in Banks, l \in IssueLimitInputs :
                  ( /\ l < MinCreditLimit \/ l > MaxCreditLimit
                    /\ IssueApplyStart(w, c, b, l) ) =>
                      /\ response'.code = 400 /\ Free(w)'
                      /\ UNCHANGED card_applications
        /\ \A i \in 1..Len(card_applications') :
              /\ card_applications'[i].requested_credit_limit >= MinCreditLimit
              /\ card_applications'[i].requested_credit_limit <= MaxCreditLimit
        /\ Len(card_applications') > Len(card_applications) =>
              card_applications'[Len(card_applications')].status = STATUS_PENDING ]_vars

\* an application has been refused for its limit and another has been stored
C14_Witness ==
    /\ response.op = "apply" /\ response.code = 400
    /\ Len(card_applications) > 0

\* C16: a reject request whose reason has fewer than 10 characters is answered
\* 400 at once and leaves the applications as they are, whether the
\* application is pending, resolved or missing; a pending application stays
\* pending with rejection_reason, approved_by and processed_at unset.
C16_ShortReasonRefused ==
    [][ \A id \in AppIds : Taken("reject", id) =>
          \A w \in Workers, m \in Managers, r \in ReasonInputs :
              ( /\ IsSet(r)
                /\ Len(Val(r)) < MinReasonLength
                /\ RejectStart(w, m, id, r) ) =>
                  /\ response'.code = 400 /\ Free(w)'
                  /\ UNCHANGED << card_applications, credit_cards >>
                  /\ ( /\ id <= Len(card_applications)
                       /\ card_applications[id].status = STATUS_PENDING ) =>
                        /\ card_applications'[id].status = STATUS_PENDING
                        /\ ~IsSet(card_applications'[id].rejection_reason)
                        /\ ~IsSet(card_applications'[id].approved_by)
                        /\ ~IsSet(card_applications'[id].processed_at) ]_vars

\* a reject request has been refused for its reason on a pending application
C16_Witness ==
    /\ response.op = "reject" /\ response.code = 400
    /\ response.target <= Len(card_applications)
    /\ card_applications[response.target].status = STATUS_PENDING

\* the customer has an active card of the bank
HoldsCard(c, bank) == \E k \in find_by_customer_id(c) : credit_cards[k].bank_name = bank

\* C11 as stated: a card application of a customer who has an active card of
\* the same bank is answered 409 at once and stores no application.
C11_DuplicateBankConflicts ==
    [][ Taken("apply", 0) =>
          \A w \in IssueWorkers, c \in Customers, b \in Banks, l \in IssueLimitInputs :
              (HoldsCard(c, b) /\ IssueApplyStart(w, c, b, l)) =>
                  /\ response'.code = 409 /\ Free(w)'
                  /\ UNCHANGED card_applications ]_vars

\* C11 amended: such an application is refused at once and stores no
\* application; it is answered 409 when its requested limit is within
\* [10000, 1000000] and 400 when it is not.
C11_DuplicateBankRefused ==
    [][ Taken("apply", 0) =>
          \A w \in IssueWorkers, c \in Customers, b \in Banks, l \in IssueLimitInputs :
              (HoldsCard(c, b) /\ IssueApplyStart(w, c, b, l)) =>
                  /\ response'.code = IF validate_credit_limit(l) THEN 409 ELSE 400
                  /\ Free(w)'
                  /\ UNCHANGED card_applications ]_vars

\* an application has been answered 409 for a customer who holds a card
C11_Witness ==
    /\ response.op = "apply" /\ response.code = 409
    /\ \E c \in Customers, b \in Banks : HoldsCard(c, b)

\* C12: a card application with a valid limit, of a customer who has a pending
\* application for the same bank and no card yet, is answered 409.
C12_PendingDuplicateConflicts ==
    [][ Taken("apply", 0) =>
          \A w \in IssueWorkers, c \in Customers, b \in Banks, l \in IssueLimitInputs :
              ( /\ validate_credit_limit(l)
                /\ \E i \in 1..Len(card_applications) :
                      /\ card_applications[i].customer_id = c
                      /\ card_applications[i].bank_name = b
                      /\ card_applications[i].status = STATUS_PENDING
                /\ credit_cards = << >>
                /\ IssueApplyStart(w, c, b, l) ) =>
                  response'.code = 409 /\ Free(w)' ]_vars

\* C13: no customer has two active cards of one bank.
C13_OneActiveCardPerBank ==
    \A c \in Customers, b \in Banks :
        Cardinality({k \in find_by_customer_id(c) : credit_cards[k].bank_name = b}) <= 1

\* C15: an approve request on a pending application with a limit outside
\* [10000, 1000000] is answered 400 at once and leaves the applications and
\* the cards as they are; one that omits the limit goes on with the requested
\* limit; and every card has the credit_limit that its application records as
\* approved_credit_limit, within [10000, 1000000].
C15_ApprovedLimit ==
    [][ /\ \A id \in 1..Len(card_applications) :
              (card_applications[id].status = STATUS_PENDING /\ Taken("approve", id)) =>
                  \A w \in Workers, m \in Managers, l \in IssueApproveLimitInputs :
                      ApproveStart(w, m, id, l) =>
                          IF ~IsSet(l)
                          THEN reqs'[w].num = card_applications[id].requested_credit_limit
                          ELSE ~validate_credit_limit(Val(l)) =>
                                  /\ response'.code = 400 /\ Free(w)'
                                  /\ UNCHANGED << card_applications, credit_cards >>
        /\ \A k \in 1..Len(credit_cards') :
              /\ Some(credit_cards'[k].credit_limit) =
                    card_applications'[issued_from'[k]].approved_credit_limit
              /\ validate_credit_limit(credit_cards'[k].credit_limit) ]_vars

\* C21: for every attribute set with income, experience and loan >= 0, the
\* score v returned by calculate_cibil_score has 300 <= v <= 900.
C21_ScoreInRange ==
    response.op = "score" =>
        /\ Val(response.data).score >= 300 * ScoreScale
        /\ Val(response.data).score <= 900 * ScoreScale

\* a score has been returned for an applicant whose points less the loan
\* deduction come to less than 300
C21_Witness ==
    /\ response.op = "score"
    /\ Val(response.data).score = 300 * ScoreScale
    /\ Val(response.data).customer_data.annual_income = 0
    /\ Val(response.data).customer_data.existing_loan_amount = 1000000

\* C22: with the other attributes fixed, the score does not go down when the
\* income or the experience goes up, the score for salaried is not below the
\* score for any other employment type, and the score does not go up when
\* the loan goes up.
C22_ScoreMonotone ==
    response.op = "score" =>
        LET a == Val(response.data).customer_data
            v == Val(response.data).score
        IN /\ \A i \in IncomeInputs : i >= a.annual_income =>
                  calculate_cibil_score([a EXCEPT !.annual_income = i]) >= v
           /\ \A y \in ExperienceInputs : y >= a.years_of_experience =>
                  calculate_cibil_score([a EXCEPT !.years_of_experience = y]) >= v
           /\ calculate_cibil_score([a EXCEPT !.employment_type = "salaried"]) >= v
           /\ \A l \in LoanInputs : l >= a.existing_loan_amount =>
                  calculate_cibil_score([a EXCEPT !.existing_loan_amount = l]) <= v

\* a score has been returned that a higher income raises and a loan lowers
C22_Witness ==
    /\ response.op = "score"
    /\ LET a == Val(response.data).customer_data
       IN /\ calculate_cibil_score([a EXCEPT !.annual_income = 1000000])
                > Val(response.data).score
          /\ calculate_cibil_score([a EXCEPT !.existing_loan_amount = 2000000])
                < Val(response.data).score
          /\ a.employment_type = "self_employed"

\* C23: the score equals clamp(300 + income points + experience points +
\* employment points + age points - min(loan/10000, 100), 300, 900), with the
\* tiers' lower bounds inclusive; income 600000, experience 3, salaried, age
\* 25, no loan gives 650.
C23_ScoreFormula ==
    response.op = "score" =>
        LET a == Val(response.data).customer_data
            incomePoints == IF a.annual_income >= 1000000 THEN 200
                            ELSE IF a.annual_income >= 500000 THEN 150
                            ELSE IF a.annual_income >= 300000 THEN 100 ELSE 0
            experiencePoints == IF a.years_of_experience >= 5 THEN 100
                                ELSE IF a.years_of_experience >= 2 THEN 50 ELSE 0
            employmentPoints == CASE a.employment_type = "salaried" -> 100
                                  [] a.employment_type = "self_employed" -> 50
                                  [] OTHER -> 0
            agePoints == CASE a.age \in 25..35 -> 50
                           [] a.age \in 36..45 -> 75
                           [] OTHER -> 0
            raw == (300 + incomePoints + experiencePoints + employmentPoints + agePoints)
                       * ScoreScale
                   - Min(a.existing_loan_amount, 100 * ScoreScale)
        IN /\ Val(response.data).score =
                 Max(300 * ScoreScale, Min(raw, 900 * ScoreScale))
           /\ a = [annual_income |-> 600000, years_of_experience |-> 3,
                   employment_type |-> "salaried", age |-> 25,
                   existing_loan_amount |-> 0]
                 => Val(response.data).score = 650 * ScoreScale

\* the score of the example applicant has been returned
C23_Witness ==
    /\ response.op = "score"
    /\ Val(response.data).customer_data =
          [annual_income |-> 600000, years_of_experience |-> 3,
           employment_type |-> "salaried", age |-> 25, existing_loan_amount |-> 0]
    /\ Val(response.data).score = 650 * ScoreScale

\* C24: the score returned by calculate_cibil_score is a whole number.
C24_ScoreWhole ==
    response.op = "score" => Val(response.data).score % ScoreScale = 0

\* C28: once a registration, a profile update or a score query has been
\* answered and no request is in progress, the score stored for each
\* customer equals calculate_cibil_score of the customer's stored attributes
\* and lies in [300, 900]; the score stored by a registration is the score
\* in the registration's response.
C28_StoredScoreCurrent ==
    (\A w \in Workers : Free(w)) =>
        /\ \A c \in 1..Len(customers) :
              /\ customers[c].cibil_score = calculate_cibil_score(customers[c])
              /\ customers[c].cibil_score >= MinScore * ScoreScale
              /\ customers[c].cibil_score <= MaxScore * ScoreScale
        /\ response.op = "register" /\ response.code = 200 =>
              customers[response.target].cibil_score = Val(response.data).cibil_score

\* C25: of two resolution requests for one pending application that both
\* read it before either writes, exactly one writes the application's status
\* and resolution fields: a resolved application is never written again.
C25_ResolvedOnce ==
    [][\A id \in 1..Len(card_applications) :
          Resolved(id) => card_applications'[id] = card_applications[id]]_vars

\* C26: no balance update is lost when requests on one card interleave: the
\* step in which a purchase is answered 200 leaves the stored current_balance
\* higher by the purchase's amount, and the step in which a bill payment
\* writes the balance leaves it lower by the payment's amount.
C26_NoLostUpdate ==
    [][\A w \in Workers :
          /\ (/\ reqs[w].pc = "txn_balance"
              /\ Free(w)'
              /\ response'.code = 200)
                => credit_cards'[reqs[w].target].current_balance =
                       credit_cards[reqs[w].target].current_balance + reqs[w].num
          /\ (/\ reqs[w].pc = "pay_update"
              /\ reqs'[w].pc = "pay_insert")
                => credit_cards'[reqs[w].target].current_balance =
                       credit_cards[reqs[w].target].current_balance - reqs[w].num]_vars

\* C27: when the store reports no document modified by a balance update, the
\* card object keeps the current_balance and available_credit it had before
\* update_balance was called, and the caller does not answer with a new
\* balance: a purchase whose balance update modifies nothing is answered
\* with a failure or with the balance the handler had read.
C27_UnconfirmedUpdateKeepsBalance ==
    [][\A w \in Workers :
          (/\ reqs[w].pc = "txn_balance"
           /\ Free(w)'
           /\ response'.op = "txn"
           /\ 0 \in modified_count(credit_cards[reqs[w].target],
                                   credit_cards'[reqs[w].target]))
             => \/ response'.code # 200
                \/ response'.data = BalanceData(Val(reqs[w].obj))]_vars

\* the amounts of the first n transaction records that reference the card,
\* payments counted negative
RECURSIVE LedgerSum(_, _)
LedgerSum(card_id, n) ==
    IF n = 0 THEN 0
    ELSE LedgerSum(card_id, n - 1)
         + (IF transactions[n].card_id # card_id THEN 0
            ELSE IF transactions[n].transaction_type = "payment"
                 THEN 0 - transactions[n].amount
                 ELSE transactions[n].amount)

\* C29: with requests handled one after the other, whenever no request is in
\* progress each card's current_balance is the sum of the amounts of the
\* card's recorded balance-increasing transactions less the sum of the
\* amounts of its recorded payments, the records seeded at approval counted.
C29_LedgerConsistent ==
    (\A w \in Workers : Free(w)) =>
        \A k \in 1..Len(credit_cards) :
            credit_cards[k].current_balance = LedgerSum(k, Len(transactions))

\* C30: no step changes a stored card's credit_limit, owner or bank_name or
\* sets is_active back to TRUE; the write of a PIN leaves current_balance and
\* available_credit as they are; the write of a removal changes nothing but
\* is_active, which it sets to FALSE, and leaves a removed card as it is.
C30_CardFrame ==
    [][\A k \in 1..Len(credit_cards) :
          LET old == credit_cards[k]
              new == credit_cards'[k]
          IN /\ new.credit_limit = old.credit_limit
             /\ new.customer_id = old.customer_id
             /\ new.bank_name = old.bank_name
             /\ ~old.is_active => ~new.is_active
             /\ \A w \in Workers :
                   /\ (reqs[w].pc = "pin_update" /\ Free(w)') =>
                         /\ new.current_balance = old.current_balance
                         /\ new.available_credit = old.available_credit
                   /\ (reqs[w].pc = "remove_update" /\ Free(w)') =>
                         /\ new = IF k = reqs[w].target
                                  THEN [old EXCEPT !.is_active = FALSE] ELSE old
                         /\ ~old.is_active => new = old]_vars

\* two removals of customer 1's card have been answered, the second one on
\* the removed card
C30_Witness ==
    /\ response.op = "remove"
    /\ response.code = 200
    /\ \A w \in Workers : Free(w)
    /\ posts = MaxPosts
    /\ ~credit_cards[1].is_active
    /\ credit_cards[1].pin = None
    /\ Len(transactions) = Len(create_sample_transactions(1, 1))
====
